---- MODULE Spec2Model ----
(***************************************************************************)
(* Model of the WCAG colour-scale generator:                               *)
(*   src/src/utils/reverseWcagContrast.ts  scaleToContrast,                *)
(*                                         reverseWCAGContrast             *)
(*   src/unnamed/part_000                  toe, yToOklabLightness,         *)
(*                                         yToOkhslLightness               *)
(*   src/src/generateColorScale.ts         computeHue, computeChroma,      *)
(*                                         computeLightness,               *)
(*                                         generateColorScale              *)
(*                                                                         *)
(* A JavaScript number is modelled as a decimal fixed-point number: the    *)
(* integer n stands for n / One.  Every arithmetic operation of the source *)
(* is one fixed-point operation, in the source's order of evaluation, and  *)
(* rounds its result to the nearest representable value, as a floating-    *)
(* point operation does (at a coarser resolution); roots are rounded down. *)
(***************************************************************************)
EXTENDS Integers, Sequences, FiniteSets, TLC

VARIABLES
    pc,         \* where the running call is: "called", "reduce" (inside
                \* steps.reduce), "returned" or "thrown"
    options,    \* the GenerateColorScaleOptions of the generateColorScale call
    idx,        \* the index in options.steps of the element reduce takes next
    scale,      \* the accumulator of steps.reduce: step -> colour
    result,     \* what generateColorScale returned or threw
    console,    \* the lines written with console.log
    converted,  \* the number of calls of okhslToSrgb
    call,       \* the function called and, for a direct call, its arguments
    ret,        \* what a directly called function returned or threw
    earlier     \* the options and the result of an earlier generateColorScale

vars == <<pc, options, idx, scale, result, console, converted, call, ret,
          earlier>>

----------------------------------------------------------------------------
(* Fixed-point numbers.                                                    *)

One == 1000 * 1000

Num(i) == i * One

\* The decimal literal n/d of the source, e.g. 3.04 is Dec(304, 100).
Dec(n, d) == n * (One \div d)

Abs(x) == IF x < 0 THEN -x ELSE x

Sgn(x) == IF x < 0 THEN -1 ELSE 1

Max(a, b) == IF a >= b THEN a ELSE b

Min(a, b) == IF a <= b THEN a ELSE b

\* n / d rounded to the nearest integer, for n >= 0 and d > 0.
RoundDiv(n, d) == (2 * n + d) \div (2 * d)

\* a * b for a, b >= 0, rounded to the nearest representable number; the
\* operands are split in two so that no intermediate exceeds 32 bits.
MulAbs(a, b) ==
    LET ah == a \div 1000
        al == a % 1000
        bh == b \div 1000
        bl == b % 1000
        mid == ah * bl + al * bh
    IN  ah * bh + (mid \div 1000) + RoundDiv((mid % 1000) * 1000 + al * bl, One)

\* The source's a * b.
Mul(a, b) == Sgn(a) * Sgn(b) * MulAbs(Abs(a), Abs(b))

\* round(r * 10^n / b) for 0 <= r < b, by long division.
RECURSIVE FracDigits(_, _, _)
FracDigits(r, b, n) ==
    IF n = 0
    THEN (IF 2 * r >= b THEN 1 ELSE 0)
    ELSE ((r * 10) \div b) * (10 ^ (n - 1)) + FracDigits((r * 10) % b, b, n - 1)

\* The source's a / b (b # 0), rounded to the nearest representable number.
Div(a, b) ==
    LET n == Abs(a)
        d == Abs(b)
    IN  Sgn(a) * Sgn(b) * ((n \div d) * One + FracDigits(n % d, d, 6))

\* The source's a / k for an integer literal k > 0.
DivInt(a, k) == Sgn(a) * RoundDiv(Abs(a), k)

\* Math.exp(x) as the Taylor series of exp, summed until a term rounds to 0.
RECURSIVE ExpSeries(_, _, _, _)
ExpSeries(x, term, n, acc) ==
    IF term = 0
    THEN acc
    ELSE LET next == DivInt(Mul(term, x), n)
         IN  ExpSeries(x, next, n + 1, acc + term)

MathExp(x) == ExpSeries(x, One, 1, 0)

\* a * b for a, b >= 0, exactly, as <<hi, lo>> with a * b = hi * One + lo.
MulExact(a, b) ==
    LET ah == a \div 1000
        al == a % 1000
        bh == b \div 1000
        bl == b % 1000
        mid == ah * bl + al * bh
        low == (mid % 1000) * 1000 + al * bl
    IN  <<ah * bh + (mid \div 1000) + (low \div One), low % One>>

\* r * r <= v, compared exactly (r and v fixed-point numbers >= 0).
SquareLeq(r, v) ==
    LET sq == MulExact(r, r)
    IN  sq[1] < v \/ (sq[1] = v /\ sq[2] = 0)

\* r * r * r <= v, compared exactly.
CubeLeq(r, v) ==
    LET sq == MulExact(r, r)
        top == MulExact(sq[1], r)
        bot == MulExact(sq[2], r)
        mid == top[2] + bot[1]
        hi == top[1] + (mid \div One)
    IN  hi < v \/ (hi = v /\ mid % One = 0 /\ bot[2] = 0)

\* The largest r in lo..hi whose square (cube) is at most v.
RECURSIVE RootSearch(_, _, _, _)
RootSearch(v, lo, hi, cube) ==
    IF lo >= hi
    THEN lo
    ELSE LET m == (lo + hi + 1) \div 2
         IN  IF (IF cube THEN CubeLeq(m, v) ELSE SquareLeq(m, v))
             THEN RootSearch(v, m, hi, cube)
             ELSE RootSearch(v, lo, m - 1, cube)

\* Math.cbrt(v) for v >= 0, rounded down to a representable number.
MathCbrt(v) == RootSearch(v, 0, Max(One, v), TRUE)

\* Math.sqrt(v) for v >= 0, rounded down to a representable number.
MathSqrt(v) == RootSearch(v, 0, Max(One, v), FALSE)

----------------------------------------------------------------------------
(* src/src/utils/reverseWcagContrast.ts                                    *)

\* scaleToContrast with the exponent 3.04 mistyped as 3.0.
scaleToContrastExponent3(scaleValue) ==
    LET normalizedValue == DivInt(scaleValue, 1000)
    IN  MathExp(Mul(Num(3), normalizedValue))

\* scaleToContrast with the exponent 3.04 mistyped as 3.05.
scaleToContrastExponent305(scaleValue) ==
    LET normalizedValue == DivInt(scaleValue, 1000)
    IN  MathExp(Mul(Dec(305, 100), normalizedValue))

\* scaleToContrast(scaleValue)
scaleToContrast(scaleValue) ==
    LET normalizedValue == DivInt(scaleValue, 1000)
    IN  MathExp(Mul(Dec(304, 100), normalizedValue))

\* The value "false" that reverseWCAGContrast returns for no solution.
False == [isNumber |-> FALSE, value |-> 0]

Number(v) == [isNumber |-> TRUE, value |-> v]

\* reverseWCAGContrast without the flare term subtracted from the solution.
reverseWCAGContrastNoFlare(contrast, y) ==
    IF ~(y >= 0 /\ y <= Num(1))
    THEN [value |-> False,
          log |-> <<"y is not a valid value (y >= 0 && y <= 1)">>]
    ELSE IF ~(contrast >= Num(1) /\ contrast <= Num(21))
    THEN [value |-> False,
          log |-> <<"contrast is not a valid value (contrast >= 1 && contrast <= 21)">>]
    ELSE LET output == IF y > Dec(18, 100)
                       THEN Div(y + Dec(5, 100), contrast)
                       ELSE Mul(contrast, y + Dec(5, 100))
         IN  [value |-> Number(Max(0, Min(Num(1), output))), log |-> <<>>]

\* reverseWCAGContrast with the light and the dark branch exchanged.
reverseWCAGContrastBranchesSwapped(contrast, y) ==
    IF ~(y >= 0 /\ y <= Num(1))
    THEN [value |-> False,
          log |-> <<"y is not a valid value (y >= 0 && y <= 1)">>]
    ELSE IF ~(contrast >= Num(1) /\ contrast <= Num(21))
    THEN [value |-> False,
          log |-> <<"contrast is not a valid value (contrast >= 1 && contrast <= 21)">>]
    ELSE LET output == IF y <= Dec(18, 100)
                       THEN Div(y + Dec(5, 100), contrast) - Dec(5, 100)
                       ELSE Mul(contrast, y + Dec(5, 100)) - Dec(5, 100)
         IN  [value |-> Number(Max(0, Min(Num(1), output))), log |-> <<>>]

\* reverseWCAGContrast without the final clamp to [0, 1].
reverseWCAGContrastUnclamped(contrast, y) ==
    IF ~(y >= 0 /\ y <= Num(1))
    THEN [value |-> False,
          log |-> <<"y is not a valid value (y >= 0 && y <= 1)">>]
    ELSE IF ~(contrast >= Num(1) /\ contrast <= Num(21))
    THEN [value |-> False,
          log |-> <<"contrast is not a valid value (contrast >= 1 && contrast <= 21)">>]
    ELSE LET output == IF y > Dec(18, 100)
                       THEN Div(y + Dec(5, 100), contrast) - Dec(5, 100)
                       ELSE Mul(contrast, y + Dec(5, 100)) - Dec(5, 100)
         IN  [value |-> Number(output), log |-> <<>>]

\* reverseWCAGContrast(contrast, y): the returned value and the lines
\* written to the console.
reverseWCAGContrast(contrast, y) ==
    IF ~(y >= 0 /\ y <= Num(1))
    THEN [value |-> False,
          log |-> <<"y is not a valid value (y >= 0 && y <= 1)">>]
    ELSE IF ~(contrast >= Num(1) /\ contrast <= Num(21))
    THEN [value |-> False,
          log |-> <<"contrast is not a valid value (contrast >= 1 && contrast <= 21)">>]
    ELSE LET output == IF y > Dec(18, 100)
                       THEN Div(y + Dec(5, 100), contrast) - Dec(5, 100)
                       ELSE Mul(contrast, y + Dec(5, 100)) - Dec(5, 100)
         IN  [value |-> Number(Max(0, Min(Num(1), output))), log |-> <<>>]

----------------------------------------------------------------------------
(* src/unnamed/part_000 (utils/colorConversions)                           *)

\* toe(L): Oklab L to Okhsl L.
toe(L) ==
    LET k_1 == Dec(206, 1000)
        k_2 == Dec(3, 100)
        k_3 == Div(Num(1) + k_1, Num(1) + k_2)
        k3L_m_k1 == Mul(k_3, L) - k_1
    IN  Mul(Dec(5, 10),
            k3L_m_k1 + MathSqrt(Mul(k3L_m_k1, k3L_m_k1)
                                + Mul(Mul(Mul(Num(4), k_2), k_3), L)))

\* yToOklabLightness(inputY); the matrix entries are the source's, rounded to
\* the resolution of the model.
yToOklabLightness(inputY) ==
    LET x == Dec(3127, 10000)
        y == Dec(329, 1000)
        X_factor == Div(x, y)
        Z_factor == Div(Num(1) - x - y, y)
        X == Mul(X_factor, inputY)
        Y == inputY
        Z == Mul(Z_factor, inputY)
        l == Max(0, Mul(818933, X) + Mul(361867, Y) + Mul(-128860, Z))
        m == Max(0, Mul(32985, X) + Mul(929312, Y) + Mul(36146, Z))
        s == Max(0, Mul(48200, X) + Mul(264366, Y) + Mul(633852, Z))
        l_prime == MathCbrt(l)
        m_prime == MathCbrt(m)
        s_prime == MathCbrt(s)
    IN  Mul(210454, l_prime) + Mul(793618, m_prime) + Mul(-4072, s_prime)

\* yToOkhslLightness(inputY)
yToOkhslLightness(inputY) == toe(yToOklabLightness(inputY))

----------------------------------------------------------------------------
(* src/src/generateColorScale.ts                                           *)

\* How a call completes: it returns a number or throws an Error.
Return(v) == [kind |-> "return", value |-> v, error |-> ""]

Throw(message) == [kind |-> "throw", value |-> 0, error |-> message]

\* computeHue with && for || in the test that skips the shift.
computeHueShiftUnlessBoth(step, baseHue, enableBezoldBruckeShift) ==
    LET normalizedStep == DivInt(step, 1000)
    IN  IF normalizedStep < 0 \/ normalizedStep > Num(1)
        THEN Throw("step must produce a normalized value between 0 and 1")
        ELSE IF baseHue < 0 \/ baseHue > Num(360)
        THEN Throw("baseHue must be a number between 0 and 360")
        ELSE IF baseHue = 0 /\ ~enableBezoldBruckeShift
        THEN Return(baseHue)
        ELSE Return(baseHue + Mul(Num(5), Num(1) - normalizedStep))

\* computeHue with the shift growing with the step: 5 * normalizedStep.
computeHueShiftGrowing(step, baseHue, enableBezoldBruckeShift) ==
    LET normalizedStep == DivInt(step, 1000)
    IN  IF normalizedStep < 0 \/ normalizedStep > Num(1)
        THEN Throw("step must produce a normalized value between 0 and 1")
        ELSE IF baseHue < 0 \/ baseHue > Num(360)
        THEN Throw("baseHue must be a number between 0 and 360")
        ELSE IF baseHue = 0 \/ ~enableBezoldBruckeShift
        THEN Return(baseHue)
        ELSE Return(baseHue + Mul(Num(5), normalizedStep))

\* computeHue(step, baseHue, enableBezoldBruckeShift)
computeHue(step, baseHue, enableBezoldBruckeShift) ==
    LET normalizedStep == DivInt(step, 1000)
    IN  IF normalizedStep < 0 \/ normalizedStep > Num(1)
        THEN Throw("step must produce a normalized value between 0 and 1")
        ELSE IF baseHue < 0 \/ baseHue > Num(360)
        THEN Throw("baseHue must be a number between 0 and 360")
        ELSE IF baseHue = 0 \/ ~enableBezoldBruckeShift
        THEN Return(baseHue)
        ELSE Return(baseHue + Mul(Num(5), Num(1) - normalizedStep))

\* computeChroma with the square of the quadratic term forgotten.
computeChromaNoSquare(step, minChroma, maxChroma) ==
    LET normalizedStep == DivInt(step, 1000)
        chromaDifference == maxChroma - minChroma
    IN  IF normalizedStep < 0 \/ normalizedStep > Num(1)
        THEN Throw("step must produce a normalized value between 0 and 1")
        ELSE IF minChroma < 0 \/ minChroma > Num(1)
                \/ maxChroma < 0 \/ maxChroma > Num(1)
        THEN Throw("Chroma values must be numbers between 0 and 1")
        ELSE IF minChroma > maxChroma
        THEN Throw("minChroma must be less than or equal to maxChroma")
        ELSE Return(Mul(Mul(Num(-4), chromaDifference), normalizedStep)
                    + Mul(Mul(Num(4), chromaDifference), normalizedStep)
                    + minChroma)

\* computeChroma(step, minChroma, maxChroma)
computeChroma(step, minChroma, maxChroma) ==
    LET normalizedStep == DivInt(step, 1000)
        chromaDifference == maxChroma - minChroma
    IN  IF normalizedStep < 0 \/ normalizedStep > Num(1)
        THEN Throw("step must produce a normalized value between 0 and 1")
        ELSE IF minChroma < 0 \/ minChroma > Num(1)
                \/ maxChroma < 0 \/ maxChroma > Num(1)
        THEN Throw("Chroma values must be numbers between 0 and 1")
        ELSE IF minChroma > maxChroma
        THEN Throw("minChroma must be less than or equal to maxChroma")
        ELSE Return(Mul(Mul(Num(-4), chromaDifference),
                        Mul(normalizedStep, normalizedStep))
                    + Mul(Mul(Num(4), chromaDifference), normalizedStep)
                    + minChroma)

----------------------------------------------------------------------------
(* computeChroma in binary floating-point arithmetic.  The fixed-point      *)
(* numbers above add and subtract exactly; a JavaScript number is a binary  *)
(* floating-point number, whose sums and differences are rounded as well.   *)
(* Here a number is a multiple of 1 / FloatUnit that has at most            *)
(* FloatPrecision significant bits, and every operation rounds its exact    *)
(* result to the nearest such number, ties to the even one, as IEEE 754     *)
(* arithmetic does with 53 bits.  The step, an integer, is exact.           *)

\* The number of significant bits of a floating-point number.
FloatPrecision == 5

\* The floating-point number 1.
FloatUnit == 2 ^ 12

\* The unit in the last place of the floating-point numbers near x >= 0.
RECURSIVE Ulp(_)
Ulp(x) == IF x < 2 ^ FloatPrecision THEN 1 ELSE 2 * Ulp(x \div 2)

\* x + f / g for 0 <= f < g, rounded to the nearest multiple of u, ties to
\* the even multiple; the result is counted in multiples of u.
RoundTo(x, f, g, u) ==
    LET q == x \div u
        twice == 2 * ((x % u) * g + f)
    IN  IF twice > u * g \/ (twice = u * g /\ q % 2 = 1) THEN q + 1 ELSE q

\* The integer x >= 0 rounded to a floating-point number.
RoundFloat(x) == RoundTo(x, 0, 1, Ulp(x)) * Ulp(x)

\* The source's a + b and a - b.
FloatAdd(a, b) == Sgn(a + b) * RoundFloat(Abs(a + b))

FloatSub(a, b) == FloatAdd(a, -b)

\* The source's a * b; Math.pow(a, 2) is FloatMul(a, a).
FloatMul(a, b) ==
    LET product == Abs(a) * Abs(b)
        u == Max(Ulp(product), FloatUnit)
    IN  Sgn(a) * Sgn(b) * RoundTo(product, 0, 1, u) * (u \div FloatUnit)

\* The source's n / d for integers n and d > 0, such as step / 1000.
FloatDiv(n, d) ==
    LET fine == 2 ^ 8
        scaled == Abs(n) * FloatUnit * fine
        q == scaled \div d
        u == Max(Ulp(q), fine)
    IN  Sgn(n) * RoundTo(q, scaled % d, d, u) * (u \div fine)

\* computeChroma in floating point with the sign of the quadratic term lost.
computeChromaFloatPlusSquare(step, minChroma, maxChroma) ==
    LET normalizedStep == FloatDiv(step, 1000)
        chromaDifference == FloatSub(maxChroma, minChroma)
    IN  IF normalizedStep < 0 \/ normalizedStep > FloatUnit
        THEN Throw("step must produce a normalized value between 0 and 1")
        ELSE IF minChroma < 0 \/ minChroma > FloatUnit
                \/ maxChroma < 0 \/ maxChroma > FloatUnit
        THEN Throw("Chroma values must be numbers between 0 and 1")
        ELSE IF minChroma > maxChroma
        THEN Throw("minChroma must be less than or equal to maxChroma")
        ELSE Return(FloatAdd(
                 FloatAdd(FloatMul(FloatMul(4 * FloatUnit, chromaDifference),
                                   FloatMul(normalizedStep, normalizedStep)),
                          FloatMul(FloatMul(4 * FloatUnit, chromaDifference),
                                   normalizedStep)),
                 minChroma))

\* computeChroma(step, minChroma, maxChroma) in floating point.
computeChromaFloat(step, minChroma, maxChroma) ==
    LET normalizedStep == FloatDiv(step, 1000)
        chromaDifference == FloatSub(maxChroma, minChroma)
    IN  IF normalizedStep < 0 \/ normalizedStep > FloatUnit
        THEN Throw("step must produce a normalized value between 0 and 1")
        ELSE IF minChroma < 0 \/ minChroma > FloatUnit
                \/ maxChroma < 0 \/ maxChroma > FloatUnit
        THEN Throw("Chroma values must be numbers between 0 and 1")
        ELSE IF minChroma > maxChroma
        THEN Throw("minChroma must be less than or equal to maxChroma")
        ELSE Return(FloatAdd(
                 FloatAdd(FloatMul(FloatMul(-4 * FloatUnit, chromaDifference),
                                   FloatMul(normalizedStep, normalizedStep)),
                          FloatMul(FloatMul(4 * FloatUnit, chromaDifference),
                                   normalizedStep)),
                 minChroma))

----------------------------------------------------------------------------
(* computeLightness                                                        *)

\* The luminance computeLightness targets for a step: reverseWCAGContrast
\* of the step's contrast, against the default y = 1.
targetLuminance(step) == reverseWCAGContrast(scaleToContrast(step), Num(1))

\* computeLightness(step): how it completes, and what it wrote to the console.
computeLightness(step) ==
    LET target == targetLuminance(step)
    IN  IF target.value = False
        THEN [completion |->
                  Throw("Problem calculating the target luminance for step"),
              log |-> target.log]
        ELSE [completion |-> Return(yToOkhslLightness(target.value.value)),
              log |-> target.log]

----------------------------------------------------------------------------
(* generateColorScale(options) as a state machine: the validation, then    *)
(* one application of the reducer per element of steps, then the return.   *)
(* The colour of a step is kept as the Okhsl triple [h, s, l] handed to    *)
(* okhslToSrgb (the external converter, a function of that triple alone);  *)
(* converted counts the calls of okhslToSrgb.                              *)

\* Number.isInteger(step)
IsInteger(step) == step % One = 0

\* The validation without the check of the steps.
ValidationErrorStepsUnchecked(o) ==
    IF o.baseHue < 0 \/ o.baseHue > Num(360)
    THEN "baseHue must be a number between 0 and 360"
    ELSE IF o.minChroma < 0 \/ o.minChroma > Num(1)
            \/ o.maxChroma < 0 \/ o.maxChroma > Num(1)
    THEN "Chroma values must be numbers between 0 and 1"
    ELSE IF o.minChroma > o.maxChroma
    THEN "minChroma must be less than or equal to maxChroma"
    ELSE ""

\* The message of the Error that lines 146-164 throw, "" when none is thrown.
ValidationError(o) ==
    IF o.baseHue < 0 \/ o.baseHue > Num(360)
    THEN "baseHue must be a number between 0 and 360"
    ELSE IF o.minChroma < 0 \/ o.minChroma > Num(1)
            \/ o.maxChroma < 0 \/ o.maxChroma > Num(1)
    THEN "Chroma values must be numbers between 0 and 1"
    ELSE IF o.minChroma > o.maxChroma
    THEN "minChroma must be less than or equal to maxChroma"
    ELSE IF \E i \in 1..Len(o.steps) :
                \/ o.steps[i] < 0
                \/ o.steps[i] > Num(1000)
                \/ ~IsInteger(o.steps[i])
    THEN "All steps must be integers between 0 and 1000"
    ELSE ""

NoResult == [kind |-> "none", value |-> <<>>, error |-> ""]

Thrown(message) == [kind |-> "throw", value |-> <<>>, error |-> message]

Returned(mapping) == [kind |-> "return", value |-> mapping, error |-> ""]

\* { ...scale, [step]: srgb }
Spread(mapping, step, srgb) == (step :> srgb) @@ mapping

\* The reducer with the hue computed from the element's position in the
\* scale built so far (the reduce callback's index) instead of the step.
reducerHueByPosition(acc, step, o) ==
    LET h == computeHue(Num(Cardinality(DOMAIN acc)), o.baseHue,
                        o.enableBezoldBruckeShift)
        s == computeChroma(step, o.minChroma, o.maxChroma)
        l == computeLightness(step)
    IN  IF h.kind = "throw"
        THEN [kind |-> "throw", error |-> h.error, scale |-> acc,
              log |-> <<>>, conversions |-> 0]
        ELSE IF s.kind = "throw"
        THEN [kind |-> "throw", error |-> s.error, scale |-> acc,
              log |-> <<>>, conversions |-> 0]
        ELSE IF l.completion.kind = "throw"
        THEN [kind |-> "throw", error |-> l.completion.error, scale |-> acc,
              log |-> l.log, conversions |-> 0]
        ELSE [kind |-> "return", error |-> "",
              scale |-> Spread(acc, step,
                               [h |-> h.value, s |-> s.value,
                                l |-> l.completion.value]),
              log |-> l.log, conversions |-> 1]

\* The reducer of lines 167-175, applied to the accumulated scale acc and
\* one step: the new scale (or the Error thrown), and the console lines.
reducer(acc, step, o) ==
    LET h == computeHue(step, o.baseHue, o.enableBezoldBruckeShift)
        s == computeChroma(step, o.minChroma, o.maxChroma)
        l == computeLightness(step)
    IN  IF h.kind = "throw"
        THEN [kind |-> "throw", error |-> h.error, scale |-> acc,
              log |-> <<>>, conversions |-> 0]
        ELSE IF s.kind = "throw"
        THEN [kind |-> "throw", error |-> s.error, scale |-> acc,
              log |-> <<>>, conversions |-> 0]
        ELSE IF l.completion.kind = "throw"
        THEN [kind |-> "throw", error |-> l.completion.error, scale |-> acc,
              log |-> l.log, conversions |-> 0]
        ELSE [kind |-> "return", error |-> "",
              scale |-> Spread(acc, step,
                               [h |-> h.value, s |-> s.value,
                                l |-> l.completion.value]),
              log |-> l.log, conversions |-> 1]

\* Lines 146-164: the checks of the options.
Validate ==
    /\ pc = "called"
    /\ call.fn = "generateColorScale"
    /\ LET message == ValidationError(options)
       IN  IF message # ""
           THEN /\ pc' = "thrown"
                /\ result' = Thrown(message)
                /\ UNCHANGED idx
           ELSE /\ pc' = "reduce"
                /\ idx' = 1
                /\ UNCHANGED result
    /\ UNCHANGED <<options, scale, console, converted, call, ret, earlier>>

\* Lines 167-175: the reducer applied to the next element of steps.
ReduceStep ==
    /\ pc = "reduce"
    /\ idx <= Len(options.steps)
    /\ \E r \in {reducer(scale, options.steps[idx], options)} :
           /\ console' = console \o r.log
           /\ converted' = converted + r.conversions
           /\ scale' = r.scale
           /\ IF r.kind = "throw"
              THEN /\ pc' = "thrown"
                   /\ result' = Thrown(r.error)
                   /\ UNCHANGED idx
              ELSE /\ idx' = idx + 1
                   /\ UNCHANGED <<pc, result>>
    /\ UNCHANGED <<options, call, ret, earlier>>

\* Line 167: reduce returns the accumulated scale.
ReturnScale ==
    /\ pc = "reduce"
    /\ idx > Len(options.steps)
    /\ pc' = "returned"
    /\ result' = Returned(scale)
    /\ UNCHANGED <<options, idx, scale, console, converted, call, ret, earlier>>

\* A later call of generateColorScale, with another steps array and the same
\* remaining options; the earlier call's options and result are kept.
CallAgain ==
    /\ pc = "returned"
    /\ call.fn = "generateColorScale"
    /\ earlier.result.kind = "none"
    /\ \E steps \in call.lists :
           options' = [options EXCEPT !.steps = steps]
    /\ earlier' = [options |-> options, result |-> result]
    /\ pc' = "called"
    /\ idx' = 0
    /\ scale' = <<>>
    /\ result' = NoResult
    /\ converted' = 0
    /\ UNCHANGED <<console, call, ret>>

----------------------------------------------------------------------------
(* Direct calls of the exported and internal functions.                    *)

\* reverseWCAGContrast(contrast, y)
CallReverseWCAGContrast ==
    /\ pc = "called"
    /\ call.fn = "reverseWCAGContrast"
    /\ LET r == reverseWCAGContrast(call.contrast, call.y)
       IN  /\ ret' = r.value
           /\ console' = console \o r.log
    /\ pc' = "returned"
    /\ UNCHANGED <<options, idx, scale, result, converted, call, earlier>>

\* computeHue(step, baseHue, enableBezoldBruckeShift)
CallComputeHue ==
    /\ pc = "called"
    /\ call.fn = "computeHue"
    /\ ret' = computeHue(call.step, call.baseHue, call.enableBezoldBruckeShift)
    /\ pc' = IF ret'.kind = "throw" THEN "thrown" ELSE "returned"
    /\ UNCHANGED <<options, idx, scale, result, console, converted, call, earlier>>

\* computeChroma(step, minChroma, maxChroma)
CallComputeChroma ==
    /\ pc = "called"
    /\ call.fn = "computeChroma"
    /\ ret' = computeChroma(call.step, call.minChroma, call.maxChroma)
    /\ pc' = IF ret'.kind = "throw" THEN "thrown" ELSE "returned"
    /\ UNCHANGED <<options, idx, scale, result, console, converted, call, earlier>>

\* computeLightness(step)
CallComputeLightness ==
    /\ pc = "called"
    /\ call.fn = "computeLightness"
    /\ \E r \in {computeLightness(call.step)} :
           /\ ret' = r.completion
           /\ console' = console \o r.log
           /\ pc' = IF r.completion.kind = "throw" THEN "thrown" ELSE "returned"
    /\ UNCHANGED <<options, idx, scale, result, converted, call, earlier>>

\* computeChroma(step, minChroma, maxChroma) in floating point; the step is
\* the integer itself.
CallComputeChromaFloat ==
    /\ pc = "called"
    /\ call.fn = "computeChromaFloat"
    /\ ret' = computeChromaFloat(call.step, call.minChroma, call.maxChroma)
    /\ pc' = IF ret'.kind = "throw" THEN "thrown" ELSE "returned"
    /\ UNCHANGED <<options, idx, scale, result, console, converted, call, earlier>>

----------------------------------------------------------------------------
(* The inputs.                                                             *)

\* The longest steps array of a call.
MaxSteps == 2

\* The distance between the sampled steps of a scale.
StepStride == 100

\* The distance between the steps of the direct calls of the curve functions.
CurveStride == 1

StepLists(S) == UNION {[1..n -> S] : n \in 0..MaxSteps}

\* Steps out of contract; the negative one is a whole step, since a call
\* divides the step by 1000 before it compares it with 0.
InvalidSteps == {Num(-1), Num(1001), Dec(5005, 10)}

ValidHues == {0, Num(200), Num(360)}

InvalidHues == {-1, Num(361)}

ValidChromas == {0, Dec(3, 10), Dec(6, 10), Num(1)}

InvalidChromas == {-1, Dec(11, 10)}

\* Every combination of hues and chromas, in and out of range, with short
\* arrays of steps.
OptionSpace ==
    [baseHue : ValidHues \cup InvalidHues,
     minChroma : ValidChromas \cup InvalidChromas,
     maxChroma : ValidChromas \cup InvalidChromas,
     steps : StepLists({Num(0), Num(500), Num(1000)} \cup InvalidSteps),
     enableBezoldBruckeShift : BOOLEAN]

\* The steps of the scales whose pairs of colours are compared.
ScaleSteps ==
    {Num(k * StepStride) : k \in 0..(1000 \div StepStride)}
        \cup {Num(0), Num(1), Num(500), Num(501), Num(999), Num(1000)}

ScaleOptionSpace ==
    [baseHue : {0, Num(200)},
     minChroma : {0},
     maxChroma : {0, Dec(3, 10)},
     steps : StepLists(ScaleSteps),
     enableBezoldBruckeShift : {TRUE}]

RepeatLists == StepLists({Num(0), Num(500), Num(1000)})

RepeatOptionSpace ==
    [baseHue : {0, Num(200)},
     minChroma : {0},
     maxChroma : {Dec(3, 10)},
     steps : RepeatLists,
     enableBezoldBruckeShift : BOOLEAN]

\* Scales over the sampled steps, gray and coloured, with and without the
\* hue shift.
ShiftOptionSpace ==
    [baseHue : {0, Num(200)},
     minChroma : {0},
     maxChroma : {Dec(3, 10)},
     steps : StepLists(ScaleSteps),
     enableBezoldBruckeShift : BOOLEAN]

\* Options that pass the validation and options that it rejects, over the
\* sampled steps and the steps out of contract.
PassOptionSpace ==
    [baseHue : {Num(200), Num(360), Num(361)},
     minChroma : {0},
     maxChroma : {Dec(3, 10), Dec(11, 10)},
     steps : StepLists(ScaleSteps \cup InvalidSteps),
     enableBezoldBruckeShift : {TRUE}]

Contrasts ==
    {Num(-1), 0, Num(1) - 1, Num(1), Num(1) + 1, Dec(45, 10), Num(7),
     Num(20), Num(21), Num(21) + 1, Num(22)}

Luminances ==
    {-1, 0, Dec(5, 100), Dec(18, 100), Dec(18, 100) + 1, Dec(5, 10),
     Num(1), Num(1) + 1, Num(2)}

CurveSteps == {Num(k * CurveStride) : k \in 0..(1000 \div CurveStride)}

CurveChromas == {0, Dec(1, 10), Dec(333333, 1000000), Num(1)}

HueCalls ==
    [fn : {"computeHue"},
     step : CurveSteps \cup InvalidSteps,
     baseHue : ValidHues \cup InvalidHues,
     enableBezoldBruckeShift : BOOLEAN]

ChromaCalls ==
    [fn : {"computeChroma"},
     step : CurveSteps \cup InvalidSteps,
     minChroma : CurveChromas \cup InvalidChromas,
     maxChroma : CurveChromas \cup InvalidChromas]

LightnessCalls == [fn : {"computeLightness"}, step : CurveSteps]

\* The steps of the floating-point calls: the ends, the peak and the steps
\* half way, and two steps out of range.  Between two of them the parabola
\* differs by far more than a rounding error, as it does between two integer
\* steps in 53-bit arithmetic.
FloatSteps == {-1, 0, 250, 500, 750, 1000, 1001}

\* The floating-point numbers of [0, 1] that are multiples of
\* 2 ^ -(FloatPrecision + 2).
FloatChromas ==
    {x * (FloatUnit \div 2 ^ (FloatPrecision + 2)) :
        x \in {y \in 0..(2 ^ (FloatPrecision + 2)) : RoundFloat(y) = y}}

FloatChromaCalls ==
    [fn : {"computeChromaFloat"},
     step : FloatSteps,
     minChroma : FloatChromas,
     maxChroma : FloatChromas]

ReverseCalls ==
    [fn : {"reverseWCAGContrast"}, contrast : Contrasts, y : Luminances]

----------------------------------------------------------------------------
(* The specifications.                                                     *)

NoEarlier == [options |-> <<>>, result |-> NoResult]

\* The state in which a call with the given arguments starts.
Start(c, o) ==
    /\ pc = "called"
    /\ call = c
    /\ options = o
    /\ idx = 0
    /\ scale = <<>>
    /\ result = NoResult
    /\ console = <<>>
    /\ converted = 0
    /\ ret = False
    /\ earlier = NoEarlier

NoOptions == [steps |-> <<>>]

\* generateColorScale on options in and out of contract.
Init == \E o \in OptionSpace : Start([fn |-> "generateColorScale", lists |-> {}], o)

Next == Validate \/ ReduceStep \/ ReturnScale

Spec == Init /\ [][Next]_vars

\* generateColorScale on valid options, over the sampled steps, and direct
\* calls of computeLightness.
InitScale ==
    \/ \E o \in ScaleOptionSpace :
           Start([fn |-> "generateColorScale", lists |-> {}], o)
    \/ \E c \in LightnessCalls : Start(c, NoOptions)

NextScale == Validate \/ ReduceStep \/ ReturnScale \/ CallComputeLightness

SpecScale == InitScale /\ [][NextScale]_vars

\* Two calls of generateColorScale, one after the other.
InitRepeat ==
    \E o \in RepeatOptionSpace :
        Start([fn |-> "generateColorScale", lists |-> RepeatLists], o)

NextRepeat == Validate \/ ReduceStep \/ ReturnScale \/ CallAgain

SpecRepeat == InitRepeat /\ [][NextRepeat]_vars

\* Direct calls of reverseWCAGContrast.
InitReverse == \E c \in ReverseCalls : Start(c, NoOptions)

NextReverse == CallReverseWCAGContrast

SpecReverse == InitReverse /\ [][NextReverse]_vars

\* Direct calls of computeHue and computeChroma.
InitCurve == \E c \in HueCalls \cup ChromaCalls : Start(c, NoOptions)

NextCurve == CallComputeHue \/ CallComputeChroma

SpecCurve == InitCurve /\ [][NextCurve]_vars

\* generateColorScale on valid options with and without the hue shift, and
\* direct calls of computeHue.
InitShift ==
    \/ \E o \in ShiftOptionSpace :
           Start([fn |-> "generateColorScale", lists |-> {}], o)
    \/ \E c \in HueCalls : Start(c, NoOptions)

NextShift == Validate \/ ReduceStep \/ ReturnScale \/ CallComputeHue

SpecShift == InitShift /\ [][NextShift]_vars

\* Direct calls of computeChroma, in fixed-point and in floating-point
\* arithmetic.
InitChroma ==
    \E c \in ChromaCalls \cup FloatChromaCalls : Start(c, NoOptions)

NextChroma == CallComputeChroma \/ CallComputeChromaFloat

SpecChroma == InitChroma /\ [][NextChroma]_vars

\* generateColorScale on options that pass or fail the validation, and
\* direct calls of computeLightness for every step.
InitPass ==
    \/ \E o \in PassOptionSpace :
           Start([fn |-> "generateColorScale", lists |-> {}], o)
    \/ \E c \in LightnessCalls : Start(c, NoOptions)

NextPass == Validate \/ ReduceStep \/ ReturnScale \/ CallComputeLightness

SpecPass == InitPass /\ [][NextPass]_vars

----------------------------------------------------------------------------
(* The claims.                                                             *)

\* The luminance targeted for a valid step.
Luminance(step) == targetLuminance(step).value.value

\* The WCAG contrast ratio of two luminances.
WcagContrast(y1, y2) ==
    Div(Max(y1, y2) + Dec(5, 100), Min(y1, y2) + Dec(5, 100))

\* The steps that a step is compared with after a direct call of
\* computeLightness: the ends of the scale, the next step, and the steps at
\* distance 500.
Partners(step) ==
    {Num(0), Num(1000), step + Num(1), step + Num(500), step - Num(500)}
        \cap {Num(k) : k \in 0..1000}

\* C1: any two steps of one generated scale that are at least 500 apart have
\* a WCAG contrast ratio of at least 4.5, the ratio being taken over the
\* luminances computeLightness targets for the two steps.
C1_AAContrast ==
    /\ \A a, b \in DOMAIN scale :
           Abs(a - b) >= Num(500)
               => WcagContrast(Luminance(a), Luminance(b)) >= Dec(45, 10)
    /\ (pc = "returned" /\ call.fn = "computeLightness")
           => \A b \in Partners(call.step) :
                  Abs(call.step - b) >= Num(500)
                      => WcagContrast(Luminance(call.step), Luminance(b))
                             >= Dec(45, 10)

\* A returned scale holding two steps exactly 500 apart.
C1_Witness ==
    /\ pc = "returned"
    /\ \E a, b \in DOMAIN result.value : b - a = Num(500) /\ a > 0

C3_LightnessIncreasing ==
    /\ \A a, b \in DOMAIN scale :
           a < b => /\ scale[a].l < scale[b].l
                    /\ Luminance(a) < Luminance(b)
    /\ (pc = "returned" /\ call.fn = "computeLightness"
            /\ call.step < Num(1000))
           => /\ ret.value < computeLightness(call.step + Num(1)).completion.value
              /\ Luminance(call.step) < Luminance(call.step + Num(1))

\* C3 as amended: the lightness of a step, and the luminance it is derived
\* from, decrease strictly with the step: step 0 is the lightest colour.
C3_LightnessDecreasing ==
    /\ \A a, b \in DOMAIN scale :
           a < b => /\ scale[a].l > scale[b].l
                    /\ Luminance(a) > Luminance(b)
    /\ (pc = "returned" /\ call.fn = "computeLightness"
            /\ call.step < Num(1000))
           => /\ ret.value > computeLightness(call.step + Num(1)).completion.value
              /\ Luminance(call.step) > Luminance(call.step + Num(1))

\* A returned scale holding two neighbouring steps at the dark end.
C3_Witness ==
    /\ pc = "returned"
    /\ {Num(999), Num(1000)} \subseteq DOMAIN result.value

\* The options that the contract of generateColorScale excludes.
OutOfContract(o) ==
    \/ o.baseHue < 0 \/ o.baseHue > Num(360)
    \/ o.minChroma < 0 \/ o.minChroma > Num(1)
    \/ o.maxChroma < 0 \/ o.maxChroma > Num(1)
    \/ o.minChroma > o.maxChroma
    \/ \E i \in DOMAIN o.steps :
           o.steps[i] % One # 0 \/ o.steps[i] < 0 \/ o.steps[i] > Num(1000)

\* C4: a call whose options are out of contract ends with an Error, thrown
\* before any step was reduced and before any colour was converted; no
\* mapping is returned or built, not even for steps before the offending one.
C4_RejectedBeforeWork ==
    (OutOfContract(options) /\ pc # "called")
        => /\ pc = "thrown"
           /\ result.kind = "throw"
           /\ result.error # ""
           /\ DOMAIN result.value = {}
           /\ DOMAIN scale = {}
           /\ idx = 0
           /\ converted = 0

\* A rejected call whose only fault is the second step, 500.5, after the
\* valid step 0.
C4_Witness ==
    /\ pc = "thrown"
    /\ options.steps = <<Num(0), Dec(5005, 10)>>
    /\ options.baseHue = Num(200)
    /\ options.minChroma <= options.maxChroma
    /\ options.minChroma >= 0
    /\ options.maxChroma <= Num(1)

\* C5: every hue that computeHue returned and generateColorScale handed to
\* the converter lies in [0, 360].
C5_HueInRange ==
    \A step \in DOMAIN scale : scale[step].h >= 0 /\ scale[step].h <= Num(360)

\* C6: of two calls with the same baseHue, minChroma, maxChroma and
\* enableBezoldBruckeShift, the results hold the same colour at every step
\* that both steps arrays contain, and the same mapping when the arrays are
\* the same.
C6_StepColourIndependent ==
    (pc = "returned" /\ earlier.result.kind = "return")
        => /\ \A step \in DOMAIN result.value \cap DOMAIN earlier.result.value :
                  result.value[step] = earlier.result.value[step]
           /\ options.steps = earlier.options.steps => result = earlier.result

\* Two returned calls, with hue shift, whose arrays hold step 500 at
\* different positions, once of them twice.
C6_Witness ==
    /\ pc = "returned"
    /\ earlier.result.kind = "return"
    /\ earlier.options.steps = <<Num(0), Num(500)>>
    /\ options.steps = <<Num(500), Num(500)>>
    /\ options.baseHue = Num(200)
    /\ options.enableBezoldBruckeShift

\* The chroma of a valid call's mirrored step, and of step 500.
MirrorChroma == computeChroma(Num(1000) - call.step, call.minChroma, call.maxChroma)

PeakChroma == computeChroma(Num(500), call.minChroma, call.maxChroma)

\* C7 as claimed: computeChroma returns for a step exactly what it returns
\* for 1000 - step, no step exceeds step 500, and step 500 gives maxChroma.
C7_ChromaSymmetric ==
    (pc = "returned" /\ call.fn = "computeChroma")
        => /\ ret.value = MirrorChroma.value
           /\ ret.value <= PeakChroma.value
           /\ PeakChroma.value = call.maxChroma

\* C7 as amended: computeChroma returns for a step what it returns for
\* 1000 - step up to the rounding of its two products (one unit of the last
\* place each), no step exceeds step 500, and step 500 gives maxChroma.
C7_ChromaSymmetricUpToRounding ==
    (pc = "returned" /\ call.fn = "computeChroma")
        => /\ Abs(ret.value - MirrorChroma.value) <= 2
           /\ ret.value <= PeakChroma.value
           /\ Abs(PeakChroma.value - call.maxChroma) <= 1

\* A returned computeChroma whose value differs from its mirror's.
C7_Witness ==
    /\ pc = "returned"
    /\ call.fn = "computeChroma"
    /\ ret.value # MirrorChroma.value

\* C8: for a step in [0, 1000] and a baseHue in [0, 360], computeHue returns
\* baseHue itself when the shift is disabled or baseHue is 0; and computeChroma
\* returns 0 when minChroma = maxChroma = 0: the gray scale has hue 0 and
\* chroma 0 at every step, with the shift enabled or not.
C8_AchromaticUnchanged ==
    /\ (/\ pc # "called"
        /\ call.fn = "computeHue"
        /\ call.step >= 0 /\ call.step <= Num(1000)
        /\ call.baseHue >= 0 /\ call.baseHue <= Num(360)
        /\ (call.baseHue = 0 \/ ~call.enableBezoldBruckeShift))
           => (pc = "returned" /\ ret = Return(call.baseHue))
    /\ (/\ pc # "called"
        /\ call.fn = "computeChroma"
        /\ call.step >= 0 /\ call.step <= Num(1000)
        /\ call.minChroma = 0 /\ call.maxChroma = 0)
           => (pc = "returned" /\ ret = Return(0))

\* computeHue returned for the darkest step with baseHue 0 and the shift
\* enabled.
C8_Witness ==
    /\ pc = "returned"
    /\ call.fn = "computeHue"
    /\ call.baseHue = 0
    /\ call.enableBezoldBruckeShift
    /\ call.step = Num(1000)

C10_ConsoleUntouched == console = <<>>

\* The step of a set of valid steps whose targeted luminance is lowest, and
\* the one whose targeted luminance is highest.
Darkest(S) == CHOOSE s \in S : \A t \in S : Luminance(s) <= Luminance(t)

Lightest(S) == CHOOSE s \in S : \A t \in S : Luminance(s) >= Luminance(t)

\* What the hue of a step of the scale adds to baseHue.
HueOffset(step) == scale[step].h - options.baseHue

\* The shift 5 * (1 - step/1000) of an integer step, computed in whole units
\* of the last place: 5 - step/200.
ShiftOf(step) == Num(5) - 5 * (step \div 1000)

\* A returned scale with the hue shift in effect that holds both ends of the
\* step range.
ShiftedFullScale ==
    /\ pc = "returned"
    /\ call.fn = "generateColorScale"
    /\ options.enableBezoldBruckeShift
    /\ options.baseHue # 0
    /\ {Num(0), Num(1000)} \subseteq DOMAIN scale

\* C11 as claimed: with the shift enabled and baseHue not 0, computeHue
\* returns baseHue + 5 * (1 - step/1000), and in a generated scale the offset
\* is +5 degrees at the darkest step and 0 degrees at the lightest step.
C11_ShiftLargestAtDarkest ==
    /\ (/\ pc = "returned" /\ call.fn = "computeHue"
        /\ call.enableBezoldBruckeShift /\ call.baseHue # 0)
           => ret.value = call.baseHue + ShiftOf(call.step)
    /\ ShiftedFullScale
           => /\ HueOffset(Darkest(DOMAIN scale)) = Num(5)
              /\ HueOffset(Lightest(DOMAIN scale)) = 0

\* C11 as amended: with the shift enabled and baseHue not 0, computeHue
\* returns baseHue + 5 * (1 - step/1000); in a generated scale the offset of
\* every step is that shift, a lighter step has the larger offset, and the
\* offset is +5 degrees at the lightest step (step 0) and 0 degrees at the
\* darkest step (step 1000).
C11_ShiftLargestAtLightest ==
    /\ (/\ pc = "returned" /\ call.fn = "computeHue"
        /\ call.enableBezoldBruckeShift /\ call.baseHue # 0)
           => ret.value = call.baseHue + ShiftOf(call.step)
    /\ (/\ call.fn = "generateColorScale"
        /\ options.enableBezoldBruckeShift /\ options.baseHue # 0)
           => /\ \A step \in DOMAIN scale : HueOffset(step) = ShiftOf(step)
              /\ \A a, b \in DOMAIN scale :
                     Luminance(a) > Luminance(b) => HueOffset(a) > HueOffset(b)
    /\ ShiftedFullScale
           => /\ Lightest(DOMAIN scale) = Num(0)
              /\ Darkest(DOMAIN scale) = Num(1000)
              /\ HueOffset(Lightest(DOMAIN scale)) = Num(5)
              /\ HueOffset(Darkest(DOMAIN scale)) = 0

\* A returned scale of baseHue 200 with the shift in effect, holding the
\* lightest and the darkest step.
C11_Witness ==
    /\ ShiftedFullScale
    /\ options.baseHue = Num(200)
    /\ result.value[Num(0)].h = Num(205)
    /\ result.value[Num(1000)].h = Num(200)

\* C12: for a contrast in [1, 21] and a known luminance y in [0, 1],
\* reverseWCAGContrast returns false or a luminance whose WCAG contrast
\* against y is the requested contrast (to within 0.01, far above the
\* rounding of the arithmetic); it never returns a luminance that fails to
\* achieve the requested contrast.
C12_AchievesContrast ==
    (/\ pc = "returned" /\ call.fn = "reverseWCAGContrast"
     /\ call.contrast >= Num(1) /\ call.contrast <= Num(21)
     /\ call.y >= 0 /\ call.y <= Num(1)
     /\ ret.isNumber)
        => Abs(WcagContrast(ret.value, call.y) - call.contrast) <= Dec(1, 100)

\* The number 1 of the arithmetic of the call, and its unit in the last place
\* near maxChroma.
CallOne == IF call.fn = "computeChromaFloat" THEN FloatUnit ELSE Num(1)

CallUlp == IF call.fn = "computeChromaFloat" THEN Ulp(call.maxChroma) ELSE 1

\* A call of computeChroma, in either arithmetic, that returned.
ChromaReturned ==
    /\ pc = "returned"
    /\ call.fn \in {"computeChroma", "computeChromaFloat"}

\* The step of the call as an integer.
CallStep ==
    IF call.fn = "computeChromaFloat" THEN call.step ELSE call.step \div One

\* C13 as claimed: for a step in [0, 1000] and minChroma <= maxChroma in
\* [0, 1], computeChroma returns a value in [minChroma, maxChroma], equal to
\* minChroma at step 0 and at step 1000.
C13_ChromaInRange ==
    ChromaReturned
        => /\ ret.value >= call.minChroma
           /\ ret.value <= call.maxChroma
           /\ CallStep \in {0, 1000} => ret.value = call.minChroma

\* C13 as amended: computeChroma returns a value that is at least minChroma,
\* at most 1, and exceeds maxChroma by no more than one unit in the last
\* place (the rounding of (maxChroma - minChroma) + minChroma); it is equal
\* to minChroma at step 0 and at step 1000.
C13_ChromaInRangeUpToRounding ==
    ChromaReturned
        => /\ ret.value >= call.minChroma
           /\ ret.value <= call.maxChroma + CallUlp
           /\ ret.value >= 0
           /\ ret.value <= CallOne
           /\ CallStep \in {0, 1000} => ret.value = call.minChroma

\* A floating-point call at step 500 that returned more than maxChroma.
C13_Witness ==
    /\ ChromaReturned
    /\ call.fn = "computeChromaFloat"
    /\ call.step = 500
    /\ ret.value > call.maxChroma

\* The luminance (1 + 0.05) / contrast - 0.05 before the clamp, for the
\* contrast of a step.
UnclampedLuminance(step) ==
    Div(Num(1) + Dec(5, 100), scaleToContrast(step)) - Dec(5, 100)

\* For a step: its contrast lies in [1, 21], the luminance before the clamp
\* lies in (0, 1], and reverseWCAGContrast returns that luminance, unchanged
\* by the clamp, and not false.
StepSolvable(step) ==
    /\ scaleToContrast(step) >= Num(1)
    /\ scaleToContrast(step) <= Num(21)
    /\ UnclampedLuminance(step) > 0
    /\ UnclampedLuminance(step) <= Num(1)
    /\ targetLuminance(step).value = Number(UnclampedLuminance(step))

\* A step of the running call of generateColorScale can be taken: the guard
\* of Validate, of ReduceStep or of ReturnScale holds.
CanStep ==
    \/ pc = "called"
    \/ pc = "reduce" /\ idx \in 1..Len(options.steps)
    \/ pc = "reduce" /\ idx > Len(options.steps)

\* C14: for every integer step in [0, 1000] the contrast lies in [1, 21] and
\* the unclamped luminance in (0, 1], so that reverseWCAGContrast returns it
\* unchanged and never false, and computeLightness returns; and a call of
\* generateColorScale whose options passed the validation never throws, is
\* never stopped short of its return, and returns a mapping of its steps.
C14_ValidCallReturns ==
    /\ (call.fn = "computeLightness" /\ pc # "called")
           => /\ StepSolvable(call.step)
              /\ pc = "returned"
              /\ ret.kind = "return"
    /\ (call.fn = "generateColorScale" /\ ValidationError(options) = "")
           => /\ pc # "thrown"
              /\ result.kind # "throw"
              /\ \A step \in DOMAIN scale : StepSolvable(step)
              /\ pc = "returned" \/ CanStep
              /\ pc = "returned"
                     => /\ result = Returned(scale)
                        /\ DOMAIN result.value
                               = {options.steps[i] : i \in DOMAIN options.steps}

\* A call on the two ends of the step range, in this order, that returned
\* a colour for both.
C14_Witness ==
    /\ pc = "returned"
    /\ call.fn = "generateColorScale"
    /\ options.steps = <<Num(0), Num(1000)>>
    /\ result.kind = "return"
    /\ DOMAIN result.value = {Num(0), Num(1000)}

====
